---------------------------- MODULE Spec2Model ----------------------------
(***************************************************************************)
(* Model of scripts/markdown_converter.py (class MarkdownConverter).       *)
(*                                                                         *)
(* Text is modelled as a sequence of one-character strings, so that the    *)
(* regular-expression substitutions, split/join and strip of the source    *)
(* are computed character by character.                                    *)
(*                                                                         *)
(* Four specifications share the variables:                                *)
(*   SpecNorm  - _clean_markdown applied once and then to its own output   *)
(*   SpecLine  - the per-line span loop of _process_pdf_blocks             *)
(*   SpecPdf   - the page loop of pdf_to_markdown                          *)
(*   SpecBatch - main / convert_to_markdown / batch_convert                *)
(***************************************************************************)
EXTENDS Integers, Sequences, FiniteSets, TLC

VARIABLES
    \* SpecNorm
    markdown_content,   \* argument of _clean_markdown
    cleaned,            \* _clean_markdown(markdown_content)
    recleaned,          \* _clean_markdown(cleaned)
    npc,                \* "start" | "once" | "twice"
    \* SpecLine
    spans,              \* line["spans"]
    span_i,             \* number of spans already consumed by the loop
    line_text,          \* the accumulator of the span loop
    markdown_lines,     \* lines appended so far
    lpc,                \* "loop" | "done"
    \* SpecPdf
    doc,                \* the pages of the opened document (their blocks)
    page_num,           \* loop variable of range(len(doc))
    md_parts,           \* the list markdown_content of pdf_to_markdown
    full_markdown,      \* content written to the output file
    ppc,                \* "loop" | "done"
    \* SpecBatch
    batch,              \* args.batch
    entries,            \* what rglob('*') yields, in traversal order
    input,              \* the input path of the single-file mode
    pos,                \* number of entries already visited
    results,            \* list returned by batch_convert / record of convert
    made_dirs,          \* directories created
    written,            \* output files written
    invoked,            \* calls made to the two conversion paths
    raised,             \* exception that left convert_to_markdown in main
    bpc                 \* "start" | "loop" | "done"

normVars  == <<markdown_content, cleaned, recleaned, npc>>
lineVars  == <<spans, span_i, line_text, markdown_lines, lpc>>
pdfVars   == <<doc, page_num, md_parts, full_markdown, ppc>>
batchVars == <<batch, entries, input, pos, results, made_dirs, written,
               invoked, raised, bpc>>
vars == <<normVars, lineVars, pdfVars, batchVars>>

----------------------------------------------------------------------------
(* Bounds *)

MaxLen == 5         \* longest input text of the normalizer
MaxSpans == 2       \* most spans in a line
MaxPages == 3       \* most pages in a document
MaxFiles == 3       \* most directory entries in a batch

----------------------------------------------------------------------------
(* Characters and string helpers *)

NL == "\n"

\* the characters \s and str.strip() treat as white space
IsSpace(c) == c \in {" ", "\n", "\t"}

ListMarkers == {"-", "*", "+"}

Min(a, b) == IF a < b THEN a ELSE b

RECURSIVE NewlineRun(_, _)
NewlineRun(s, i) ==
    IF i <= Len(s) /\ s[i] = NL THEN 1 + NewlineRun(s, i + 1) ELSE 0

RECURSIVE HashRun(_, _)
HashRun(s, i) ==
    IF i <= Len(s) /\ s[i] = "#" THEN 1 + HashRun(s, i + 1) ELSE 0

RECURSIVE SpaceRun(_, _)
SpaceRun(s, i) ==
    IF i <= Len(s) /\ IsSpace(s[i]) THEN 1 + SpaceRun(s, i + 1) ELSE 0

\* index of the first newline at or after i, or 0 when there is none
RECURSIVE NextNewline(_, _)
NextNewline(s, i) ==
    IF i > Len(s) THEN 0
    ELSE IF s[i] = NL THEN i
    ELSE NextNewline(s, i + 1)

\* str.strip()
RECURSIVE LStrip(_)
LStrip(s) ==
    IF s # <<>> /\ IsSpace(Head(s)) THEN LStrip(Tail(s)) ELSE s

RECURSIVE RStrip(_)
RStrip(s) ==
    IF s # <<>> /\ IsSpace(s[Len(s)])
    THEN RStrip(SubSeq(s, 1, Len(s) - 1))
    ELSE s

Strip(s) == RStrip(LStrip(s))

\* str.split('\n')
RECURSIVE Split(_)
Split(s) ==
    LET e == NextNewline(s, 1) IN
    IF e = 0 THEN <<s>>
    ELSE <<SubSeq(s, 1, e - 1)>> \o Split(SubSeq(s, e + 1, Len(s)))

\* sep.join(parts)
RECURSIVE Join(_, _)
Join(parts, sep) ==
    IF parts = <<>> THEN <<>>
    ELSE IF Len(parts) = 1 THEN parts[1]
    ELSE parts[1] \o sep \o Join(Tail(parts), sep)

----------------------------------------------------------------------------
(* _clean_markdown *)

\* re.sub(r'\n{3,}', '\n\n', s), scanning from position i
RECURSIVE SubNewlines(_, _)
SubNewlines(s, i) ==
    IF i > Len(s) THEN <<>>
    ELSE IF NewlineRun(s, i) >= 3
         THEN <<NL, NL>> \o SubNewlines(s, i + NewlineRun(s, i))
         ELSE <<s[i]>> \o SubNewlines(s, i + 1)

\* re.sub(r'\n(#{1,6})', r'\n\n\1', s), scanning from position i
RECURSIVE SubHeadingBefore(_, _)
SubHeadingBefore(s, i) ==
    IF i > Len(s) THEN <<>>
    ELSE IF s[i] = NL /\ HashRun(s, i + 1) >= 1
         THEN LET k == Min(HashRun(s, i + 1), 6) IN
              <<NL, NL>> \o SubSeq(s, i + 1, i + k)
                         \o SubHeadingBefore(s, i + 1 + k)
         ELSE <<s[i]>> \o SubHeadingBefore(s, i + 1)

\* re.sub(r'(#{1,6}.*)\n([^\n#])', r'\1\n\n\2', s), scanning from position i
RECURSIVE SubHeadingAfter(_, _)
SubHeadingAfter(s, i) ==
    IF i > Len(s) THEN <<>>
    ELSE LET e == NextNewline(s, i) IN
         IF /\ s[i] = "#"
            /\ e # 0
            /\ e + 1 <= Len(s)
            /\ s[e + 1] \notin {NL, "#"}
         THEN SubSeq(s, i, e - 1) \o <<NL, NL, s[e + 1]>>
                                  \o SubHeadingAfter(s, e + 2)
         ELSE <<s[i]>> \o SubHeadingAfter(s, i + 1)

\* re.sub(r'\n(\s*[-*+])', r'\n\n\1', s), scanning from position i
RECURSIVE SubListBefore(_, _)
SubListBefore(s, i) ==
    IF i > Len(s) THEN <<>>
    ELSE LET m == i + 1 + SpaceRun(s, i + 1) IN
         IF s[i] = NL /\ m <= Len(s) /\ s[m] \in ListMarkers
         THEN <<NL, NL>> \o SubSeq(s, i + 1, m) \o SubListBefore(s, m + 1)
         ELSE <<s[i]>> \o SubListBefore(s, i + 1)

Contains(line, c) == \E k \in 1..Len(line) : line[k] = c

StartsWith(line, c) == line # <<>> /\ line[1] = c

\* is_table = '|' in line and line.strip().startswith('|')
is_table(line) == Contains(line, "|") /\ StartsWith(Strip(line), "|")

\* the for loop over lines, from line i with the flag prev_was_table
RECURSIVE TableLoop(_, _, _)
TableLoop(lines, i, prev_was_table) ==
    IF i > Len(lines) THEN <<>>
    ELSE LET t == is_table(lines[i]) IN
         (IF t /\ ~prev_was_table THEN << <<>> >>
          ELSE IF ~t /\ prev_was_table THEN << <<>> >>
          ELSE <<>>)
         \o <<lines[i]>> \o TableLoop(lines, i + 1, t)

cleaned_lines(lines) == TableLoop(lines, 1, FALSE)

\* the text on which the table pass works (the four substitutions applied)
Substituted(s) ==
    SubListBefore(SubHeadingAfter(SubHeadingBefore(SubNewlines(s, 1), 1), 1), 1)

clean_markdown(s) == Strip(Join(cleaned_lines(Split(Substituted(s))), <<NL>>))

----------------------------------------------------------------------------
(* _process_pdf_blocks: the span classifier and the line loop *)

H1Size == 16        \* font_size > 16 : "# "
H2Size == 14        \* font_size > 14 : "## "
H3Size == 12        \* font_size > 12 : "### "
DefaultSize == 12   \* span.get("size", 12)
DefaultFlags == 0   \* span.get("flags", 0)
BoldFlag == 2^4     \* font_flags & 2**4
ItalicFlag == 2^1   \* font_flags & 2**1

\* span.get(key, default) of the three keys read
SpanText(sp)  == IF "text" \in DOMAIN sp THEN sp.text ELSE <<>>
SpanSize(sp)  == IF "size" \in DOMAIN sp THEN sp.size ELSE DefaultSize
SpanFlags(sp) == IF "flags" \in DOMAIN sp THEN sp.flags ELSE DefaultFlags

\* font_flags & b, for b a power of two
FlagSet(font_flags, b) == (font_flags \div b) % 2 = 1

\* HeadingPrefix with the first comparison inclusive (>= 16)
HeadingPrefixInclusive(font_size) ==
    IF font_size >= H1Size THEN <<"#", " ">>
    ELSE IF font_size > H2Size THEN <<"#", "#", " ">>
    ELSE IF font_size > H3Size THEN <<"#", "#", "#", " ">>
    ELSE <<>>

\* the heading marker chosen by the if/elif chain, <<>> for the else branch
HeadingPrefix(font_size) ==
    IF font_size > H1Size THEN <<"#", " ">>
    ELSE IF font_size > H2Size THEN <<"#", "#", " ">>
    ELSE IF font_size > H3Size THEN <<"#", "#", "#", " ">>
    ELSE <<>>

\* Emphasize testing the bold flag on the wrong bit (2**3)
EmphasizeWrongBit(text, font_flags) ==
    LET bolded == IF FlagSet(font_flags, 2^3)
                  THEN <<"*", "*">> \o text \o <<"*", "*">>
                  ELSE text
    IN  IF FlagSet(font_flags, ItalicFlag)
        THEN <<"*">> \o bolded \o <<"*">>
        ELSE bolded

\* the else branch: bold wrapped first, italic wrapped around it
Emphasize(text, font_flags) ==
    LET bolded == IF FlagSet(font_flags, BoldFlag)
                  THEN <<"*", "*">> \o text \o <<"*", "*">>
                  ELSE text
    IN  IF FlagSet(font_flags, ItalicFlag)
        THEN <<"*">> \o bolded \o <<"*">>
        ELSE bolded

\* one iteration of `for span in line.get("spans", [])`
ProcessSpan(lt, sp) ==
    LET text == Strip(SpanText(sp)) IN
    IF text = <<>> THEN lt
    ELSE IF HeadingPrefix(SpanSize(sp)) # <<>>
         THEN HeadingPrefix(SpanSize(sp)) \o text
         ELSE lt \o Emphasize(text, SpanFlags(sp)) \o <<" ">>

\* line.get("spans", [])
LineSpans(line) == IF "spans" \in DOMAIN line THEN line.spans ELSE <<>>

RECURSIVE SpanLoop(_, _, _)
SpanLoop(sps, i, lt) ==
    IF i > Len(sps) THEN lt ELSE SpanLoop(sps, i + 1, ProcessSpan(lt, sps[i]))

\* `if line_text.strip(): markdown_lines.append(line_text.strip())`
AppendLine(mls, lt) ==
    IF Strip(lt) # <<>> THEN Append(mls, Strip(lt)) ELSE mls

RECURSIVE LineLoop(_, _, _)
LineLoop(lines, i, mls) ==
    IF i > Len(lines) THEN mls
    ELSE LineLoop(lines, i + 1,
                  AppendLine(mls, SpanLoop(LineSpans(lines[i]), 1, <<>>)))

RECURSIVE BlockLoop(_, _, _)
BlockLoop(blocks, i, mls) ==
    IF i > Len(blocks) THEN mls
    ELSE IF "lines" \notin DOMAIN blocks[i] THEN BlockLoop(blocks, i + 1, mls)
    ELSE BlockLoop(blocks, i + 1, LineLoop(blocks[i].lines, 1, mls))

\* blocks.get("blocks", [])
PageBlocks(page) == IF "blocks" \in DOMAIN page THEN page.blocks ELSE <<>>

process_pdf_blocks(page) ==
    Join(BlockLoop(PageBlocks(page), 1, <<>>), <<NL, NL>>)

----------------------------------------------------------------------------
(* pdf_to_markdown: the page loop *)

DigitChars == <<"0", "1", "2", "3", "4", "5", "6", "7", "8", "9">>

\* str(n) for n >= 0
RECURSIVE ToStr(_)
ToStr(n) ==
    IF n < 10 THEN <<DigitChars[n + 1]>>
    ELSE ToStr(n \div 10) \o <<DigitChars[(n % 10) + 1]>>

\* f"\n\n---\n*Page {n}*\n\n"
PageMarker(n) ==
    <<NL, NL, "-", "-", "-", NL, "*", "P", "a", "g", "e", " ">>
        \o ToStr(n) \o <<"*", NL, NL>>

\* PageParts labelling the marker with the 0-based page index
PagePartsZeroBased(pn, page_markdown) ==
    IF Strip(page_markdown) # <<>>
    THEN (IF pn > 0 THEN <<PageMarker(pn)>> ELSE <<>>) \o <<page_markdown>>
    ELSE <<>>

\* what iteration pn (0-based) of the page loop appends to markdown_content
PageParts(pn, page_markdown) ==
    IF Strip(page_markdown) # <<>>
    THEN (IF pn > 0 THEN <<PageMarker(pn + 1)>> ELSE <<>>) \o <<page_markdown>>
    ELSE <<>>


----------------------------------------------------------------------------
(* convert_to_markdown and batch_convert *)

\* self.supported_formats: extension -> conversion path
supported_formats ==
    [e \in {".pdf", ".docx", ".doc", ".pptx", ".ppt", ".xlsx", ".xls",
            ".odt", ".odp", ".ods"} |->
        IF e = ".pdf" THEN "pdf_to_markdown" ELSE "office_to_markdown"]

\* Path(p).suffix.lower(), on the extensions the model uses
Lower(ext) ==
    CASE ext = ".PDF"  -> ".pdf"
      [] ext = ".Docx" -> ".docx"
      [] OTHER         -> ext

\* os.path.exists / Path.is_file on a directory entry
Exists(e) == e.kind # "missing"
IsFile(e) == e.kind = "file"

\* the two conversion paths, as far as the file system and the caller see
\* them: the collaborator (PyMuPDF, pandoc) decides e.outcome
\*   "ok"          - the output is written and a result record returned
\*   "fail"        - an exception is raised before anything is written
\*   "failwritten" - an exception is raised after the output was written
ConverterCall(func, path, e, fs) ==
    LET called == [fs EXCEPT !.invoked = Append(@, <<func, path>>)]
        wrote  == [called EXCEPT !.written = @ \cup {path}]
        msg    == IF func = "pdf_to_markdown" THEN "pdf error"
                  ELSE IF e.outcome = "fail"
                       THEN "Pandoc conversion failed"
                       ELSE "Office conversion failed"
    IN  CASE e.outcome = "ok" ->
               [fs |-> wrote, error |-> "",
                result |-> [success |-> TRUE, input_path |-> path,
                            output_path |-> path, conversion_type |-> func]]
          [] e.outcome = "fail" ->
               [fs |-> called, error |-> msg, result |-> <<>>]
          [] OTHER ->
               [fs |-> wrote, error |-> msg, result |-> <<>>]

\* convert_to_markdown creating the output directory before it looks at the
\* extension
convert_makedirs_first(path, e, fs) ==
    LET made == [fs EXCEPT !.made_dirs = @ \cup {<<"dirname", path>>}] IN
    IF ~Exists(e)
    THEN [fs |-> fs, error |-> "Input file not found", result |-> <<>>]
    ELSE IF Lower(e.ext) \notin DOMAIN supported_formats
    THEN [fs |-> made, error |-> "Unsupported file format", result |-> <<>>]
    ELSE ConverterCall(supported_formats[Lower(e.ext)], path, e, made)

\* convert_to_markdown(input_path, output_path, options); error = "" when it
\* returns, the message of the exception when it raises
convert_to_markdown(path, e, fs) ==
    IF ~Exists(e)
    THEN [fs |-> fs, error |-> "Input file not found", result |-> <<>>]
    ELSE IF Lower(e.ext) \notin DOMAIN supported_formats
    THEN [fs |-> fs, error |-> "Unsupported file format", result |-> <<>>]
    ELSE ConverterCall(supported_formats[Lower(e.ext)], path, e,
                       [fs EXCEPT !.made_dirs = @ \cup {<<"dirname", path>>}])

\* Selected without the filter on the extension
SelectedAnyFile(e) == IsFile(e)

\* `file_path.is_file() and file_path.suffix.lower() in self.supported_formats`
Selected(e) == IsFile(e) /\ Lower(e.ext) \in DOMAIN supported_formats

\* BatchRecord without the except clause filling in a record
BatchRecordDropFailure(res, path, conv) ==
    IF conv.error = "" THEN Append(res, conv.result) ELSE res

\* the try/except of the batch loop
BatchRecord(res, path, conv) ==
    IF conv.error = "" THEN Append(res, conv.result)
    ELSE Append(res, [success |-> FALSE, input_path |-> path,
                      error |-> conv.error])


----------------------------------------------------------------------------
(* Inputs *)

\* sequences over S of length at most n
BSeq(S, n) == UNION {[1..k -> S] : k \in 0..n}

Alphabet == {"a", NL, "#", "-", "|", " "}

SpanTexts == {<<" ">>, <<"x">>, <<"y", " ">>}
SpanSizes == {12, 14, 16, 17}
SpanFlagValues == {0, 2, 16, 18}

\* span dictionaries, some of them without a key the code reads with .get
SpanSet ==
    [text : SpanTexts, size : SpanSizes, flags : SpanFlagValues]
    \cup {[text |-> <<"x">>],
          [text |-> <<"x">>, flags |-> 18],
          [size |-> 17, flags |-> 16]}

BodySpan(t, f)  == [text |-> t, size |-> 12, flags |-> f]
TextLine(sps)   == [spans |-> sps]
TextBlock(lns)  == [lines |-> lns]

\* pages as page.get_text("dict") returns them
PageSet ==
    { [blocks |-> <<>>],
      [blocks |-> << [type |-> 1] >>],
      [blocks |-> << TextBlock(<< TextLine(<<BodySpan(<<" ">>, 0)>>) >>) >>],
      [blocks |-> << TextBlock(<< TextLine(<<BodySpan(<<"x">>, 0)>>) >>) >>],
      [blocks |-> << [type |-> 1],
                     TextBlock(<< TextLine(<<[text |-> <<"y">>, size |-> 17,
                                              flags |-> 0]>>),
                                  TextLine(<<BodySpan(<<"x">>, 16)>>) >>) >>] }

Extensions == {".pdf", ".PDF", ".docx", ".txt"}
Outcomes == {"ok", "fail", "failwritten"}

\* what rglob('*') can yield
EntrySet ==
    {[kind |-> "dir", ext |-> "", outcome |-> "ok"],
     [kind |-> "file", ext |-> ".txt", outcome |-> "ok"]}
    \cup [kind : {"file"}, ext : Extensions \ {".txt"}, outcome : Outcomes]

Missing == [kind |-> "missing", ext |-> ".pdf", outcome |-> "ok"]

NormIdle ==
    /\ markdown_content = <<>>
    /\ cleaned = <<>>
    /\ recleaned = <<>>
    /\ npc = "idle"

LineIdle ==
    /\ spans = <<>>
    /\ span_i = 0
    /\ line_text = <<>>
    /\ markdown_lines = <<>>
    /\ lpc = "idle"

PdfIdle ==
    /\ doc = <<>>
    /\ page_num = 0
    /\ md_parts = <<>>
    /\ full_markdown = <<>>
    /\ ppc = "idle"

BatchIdle ==
    /\ batch = FALSE
    /\ entries = <<>>
    /\ input = Missing
    /\ pos = 0
    /\ results = <<>>
    /\ made_dirs = {}
    /\ written = {}
    /\ invoked = <<>>
    /\ raised = ""
    /\ bpc = "idle"

----------------------------------------------------------------------------
(* SpecNorm: _clean_markdown applied to a text, then to its own output *)

InitNorm ==
    /\ markdown_content \in BSeq(Alphabet, MaxLen)
    /\ cleaned = <<>>
    /\ recleaned = <<>>
    /\ npc = "start"
    /\ LineIdle /\ PdfIdle /\ BatchIdle

Clean ==
    /\ npc = "start"
    /\ cleaned' = clean_markdown(markdown_content)
    /\ npc' = "once"
    /\ UNCHANGED <<markdown_content, recleaned, lineVars, pdfVars, batchVars>>

CleanAgain ==
    /\ npc = "once"
    /\ recleaned' = clean_markdown(cleaned)
    /\ npc' = "twice"
    /\ UNCHANGED <<markdown_content, cleaned, lineVars, pdfVars, batchVars>>

NextNorm == Clean \/ CleanAgain

SpecNorm == InitNorm /\ [][NextNorm]_vars

----------------------------------------------------------------------------
(* SpecLine: the span loop of one line of _process_pdf_blocks *)

InitLine ==
    /\ spans \in BSeq(SpanSet, MaxSpans)
    /\ span_i = 0
    /\ line_text = <<>>
    /\ markdown_lines = <<>>
    /\ lpc = "loop"
    /\ NormIdle /\ PdfIdle /\ BatchIdle

SpanStep ==
    /\ lpc = "loop"
    /\ span_i < Len(spans)
    /\ line_text' = ProcessSpan(line_text, spans[span_i + 1])
    /\ span_i' = span_i + 1
    /\ UNCHANGED <<spans, markdown_lines, lpc, normVars, pdfVars, batchVars>>

LineEnd ==
    /\ lpc = "loop"
    /\ span_i = Len(spans)
    /\ markdown_lines' = AppendLine(markdown_lines, line_text)
    /\ lpc' = "done"
    /\ UNCHANGED <<spans, span_i, line_text, normVars, pdfVars, batchVars>>

NextLine == SpanStep \/ LineEnd

SpecLine == InitLine /\ [][NextLine]_vars

----------------------------------------------------------------------------
(* SpecPdf: the page loop of pdf_to_markdown and the final clean-up *)

InitPdf ==
    /\ doc \in BSeq(PageSet, MaxPages)
    /\ page_num = 0
    /\ md_parts = <<>>
    /\ full_markdown = <<>>
    /\ ppc = "loop"
    /\ NormIdle /\ LineIdle /\ BatchIdle

PageStep ==
    /\ ppc = "loop"
    /\ page_num < Len(doc)
    /\ md_parts' = md_parts
                     \o PageParts(page_num, process_pdf_blocks(doc[page_num + 1]))
    /\ page_num' = page_num + 1
    /\ UNCHANGED <<doc, full_markdown, ppc, normVars, lineVars, batchVars>>

WriteMarkdown ==
    /\ ppc = "loop"
    /\ page_num = Len(doc)
    /\ full_markdown' = clean_markdown(Join(md_parts, <<>>))
    /\ ppc' = "done"
    /\ UNCHANGED <<doc, page_num, md_parts, normVars, lineVars, batchVars>>

NextPdf == PageStep \/ WriteMarkdown

SpecPdf == InitPdf /\ [][NextPdf]_vars

----------------------------------------------------------------------------
(* SpecBatch: main, in single-file mode and in batch mode *)

InitBatch ==
    /\ batch \in BOOLEAN
    /\ IF batch
       THEN entries \in BSeq(EntrySet, MaxFiles) /\ input = Missing
       ELSE entries = <<>> /\ input \in EntrySet \cup {Missing}
    /\ pos = 0
    /\ results = <<>>
    /\ made_dirs = {}
    /\ written = {}
    /\ invoked = <<>>
    /\ raised = ""
    /\ bpc = "start"
    /\ NormIdle /\ LineIdle /\ PdfIdle

Fs == [made_dirs |-> made_dirs, written |-> written, invoked |-> invoked]

\* main, not args.batch: converter.convert_to_markdown(args.input, ...)
ConvertSingle ==
    /\ bpc = "start"
    /\ ~batch
    /\ LET conv == convert_to_markdown(0, input, Fs) IN
       /\ made_dirs' = conv.fs.made_dirs
       /\ written' = conv.fs.written
       /\ invoked' = conv.fs.invoked
       /\ raised' = conv.error
       /\ results' = IF conv.error = "" THEN <<conv.result>> ELSE <<>>
    /\ bpc' = "done"
    /\ UNCHANGED <<batch, entries, input, pos, normVars, lineVars, pdfVars>>

\* batch_convert up to the loop: output_path.mkdir, results = []
BatchStart ==
    /\ bpc = "start"
    /\ batch
    /\ made_dirs' = made_dirs \cup {<<"output_dir">>}
    /\ results' = <<>>
    /\ bpc' = "loop"
    /\ UNCHANGED <<batch, entries, input, pos, written, invoked, raised,
                   normVars, lineVars, pdfVars>>

\* one iteration of `for file_path in input_path.rglob('*')`
BatchStep ==
    /\ bpc = "loop"
    /\ pos < Len(entries)
    /\ pos' = pos + 1
    /\ LET e == entries[pos + 1]
           conv == convert_to_markdown(pos + 1, e, Fs)
       IN  IF Selected(e)
           THEN /\ made_dirs' = conv.fs.made_dirs
                /\ written' = conv.fs.written
                /\ invoked' = conv.fs.invoked
                /\ results' = BatchRecord(results, pos + 1, conv)
           ELSE UNCHANGED <<made_dirs, written, invoked, results>>
    /\ UNCHANGED <<batch, entries, input, raised, bpc,
                   normVars, lineVars, pdfVars>>

\* `return results`
BatchReturn ==
    /\ bpc = "loop"
    /\ pos = Len(entries)
    /\ bpc' = "done"
    /\ UNCHANGED <<batch, entries, input, pos, results, made_dirs, written,
                   invoked, raised, normVars, lineVars, pdfVars>>

NextBatch == ConvertSingle \/ BatchStart \/ BatchStep \/ BatchReturn

SpecBatch == InitBatch /\ [][NextBatch]_vars


----------------------------------------------------------------------------
(* Properties of the normalizer (SpecNorm) *)

\* C1: the normalizer is idempotent: normalizing its own output returns that
\* output unchanged.
C1_Idempotent == npc = "twice" => recleaned = cleaned

\* the lines just before table line i: how many of them are empty
RECURSIVE EmptyBefore(_, _)
EmptyBefore(lines, i) ==
    IF i > 1 /\ lines[i - 1] = <<>> THEN 1 + EmptyBefore(lines, i - 1) ELSE 0

RECURSIVE EmptyAfter(_, _)
EmptyAfter(lines, i) ==
    IF i < Len(lines) /\ lines[i + 1] = <<>>
    THEN 1 + EmptyAfter(lines, i + 1)
    ELSE 0

\* line i starts / ends a maximal block of table lines that has lines
\* before / after it
BlockStart(lines, i) ==
    is_table(lines[i]) /\ i > 1 /\ ~is_table(lines[i - 1])
BlockEnd(lines, i) ==
    is_table(lines[i]) /\ i < Len(lines) /\ ~is_table(lines[i + 1])

ExactlyOneBlank(lines) ==
    \A i \in 1..Len(lines) :
        /\ BlockStart(lines, i) => EmptyBefore(lines, i) = 1
        /\ BlockEnd(lines, i) => EmptyAfter(lines, i) = 1

\* C8: every table block of the output has exactly one blank line
\* before it and after it, whether or not the input had one there.
C8_ExactlyOneBlank == npc = "once" => ExactlyOneBlank(Split(cleaned))

----------------------------------------------------------------------------
(* Properties of the span loop (SpecLine) *)

\* the span consumed last, and its trimmed text
LastSpan == spans[span_i]
LastText == Strip(SpanText(LastSpan))
Consumed == lpc = "loop" /\ span_i >= 1 /\ LastText # <<>>

EndsWith(s, t) ==
    Len(s) >= Len(t) /\ SubSeq(s, Len(s) - Len(t) + 1, Len(s)) = t

\* C6 as stated: a span of size exactly 16 gets body styling, a span of size
\* above 16 is a level-1 heading.
C6_Size16IsBody ==
    Consumed =>
        /\ SpanSize(LastSpan) = 16 =>
              /\ EndsWith(line_text,
                          Emphasize(LastText, SpanFlags(LastSpan)) \o <<" ">>)
              /\ ~StartsWith(line_text, "#")
        /\ SpanSize(LastSpan) > 16 => line_text = <<"#", " ">> \o LastText

\* C6 as amended: a span of size exactly 16 is a level-2 heading ("## "),
\* not a level-1 heading; a span of size above 16 is a level-1 heading.
C6_Size16IsLevel2 ==
    Consumed =>
        /\ SpanSize(LastSpan) = 16 => line_text = <<"#", "#", " ">> \o LastText
        /\ SpanSize(LastSpan) > 16 => line_text = <<"#", " ">> \o LastText

C6_Witness ==
    /\ Consumed
    /\ SpanSize(LastSpan) = 16
    /\ line_text = <<"#", "#", " ", "x">>

\* the emphasis markers the flags call for, written out
Wrapped(text, flags) ==
    LET bold == (flags \div 16) % 2 = 1
        italic == (flags \div 2) % 2 = 1
    IN  CASE bold /\ italic -> <<"*", "*", "*">> \o text \o <<"*", "*", "*">>
          [] bold /\ ~italic -> <<"*", "*">> \o text \o <<"*", "*">>
          [] ~bold /\ italic -> <<"*">> \o text \o <<"*">>
          [] OTHER -> text

\* C7: a body span (size <= 12) is appended wrapped in the markers of its
\* flags (both: ***text***, bold: **text**, italic: *text*); a heading span
\* becomes the heading marker and its bare text, whatever its flags.
C7_EmphasisBodyOnly ==
    [][span_i' = span_i + 1 =>
        LET sp == spans[span_i']
            text == Strip(SpanText(sp))
        IN  text # <<>> =>
              IF SpanSize(sp) <= 12
              THEN line_text' =
                     line_text \o Wrapped(text, SpanFlags(sp)) \o <<" ">>
              ELSE /\ \E h \in {<<"#", " ">>, <<"#", "#", " ">>,
                                <<"#", "#", "#", " ">>} :
                          line_text' = h \o text
                   /\ ~Contains(line_text', "*")]_vars

C7_Witness ==
    /\ lpc = "loop"
    /\ span_i = 2
    /\ spans[1] = [text |-> <<"x">>, size |-> 17, flags |-> 18]
    /\ spans[2] = [text |-> <<"x">>, size |-> 12, flags |-> 18]
    /\ line_text = <<"#", " ", "x", "*", "*", "*", "x", "*", "*", "*", " ">>

IsHeadingSpan(sp) == Strip(SpanText(sp)) # <<>> /\ SpanSize(sp) > 12
IsBodySpan(sp)    == Strip(SpanText(sp)) # <<>> /\ SpanSize(sp) <= 12

HeadingSpans == {k \in 1..Len(spans) : IsHeadingSpan(spans[k])}

HeadingFragment(sp) == HeadingPrefix(SpanSize(sp)) \o Strip(SpanText(sp))

\* the rendered body spans at positions from..Len(sps), in order
RECURSIVE BodyFragments(_, _)
BodyFragments(sps, from) ==
    IF from > Len(sps) THEN <<>>
    ELSE (IF IsBodySpan(sps[from])
          THEN <<Wrapped(Strip(SpanText(sps[from])), SpanFlags(sps[from]))>>
          ELSE <<>>)
         \o BodyFragments(sps, from + 1)

BodyLine ==
    IF BodyFragments(spans, 1) = <<>> THEN <<>>
    ELSE <<Join(BodyFragments(spans, 1), <<" ">>)>>

\* C9: a line with a heading span is emitted as exactly one
\* rendered heading fragment, without text of any other span; a line without
\* one is its body fragments joined by single spaces.
C9_HeadingAlone ==
    lpc = "done" =>
        IF HeadingSpans # {}
        THEN \E k \in HeadingSpans :
                 markdown_lines = <<HeadingFragment(spans[k])>>
        ELSE markdown_lines = BodyLine

----------------------------------------------------------------------------
(* Properties of the page loop (SpecPdf) *)

\* the page has a span with non-blank text
NonEmpty(page) ==
    \E b \in 1..Len(PageBlocks(page)) :
        /\ "lines" \in DOMAIN PageBlocks(page)[b]
        /\ \E l \in 1..Len(PageBlocks(page)[b].lines) :
              \E sp \in 1..Len(LineSpans(PageBlocks(page)[b].lines[l])) :
                  Strip(SpanText(LineSpans(PageBlocks(page)[b].lines[l])[sp]))
                      # <<>>

NonEmptyPages == {n \in 1..Len(doc) : NonEmpty(doc[n])}

\* a page-break marker, as a part of the list and as lines of the document
IsMarkerPart(part) ==
    Len(part) >= 5 /\ SubSeq(part, 1, 5) = <<NL, NL, "-", "-", "-">>

MarkerParts == {k \in 1..Len(md_parts) : IsMarkerPart(md_parts[k])}

RuleLines(text) ==
    {k \in 1..Len(Split(text)) : Split(text)[k] = <<"-", "-", "-">>}

LabelLine(n) == <<"*", "P", "a", "g", "e", " ">> \o ToStr(n) \o <<"*">>

\* the page labels that occur as lines of the text
Labels(text) ==
    {n \in 1..(Len(doc) + 1) :
        \E k \in 1..Len(Split(text)) : Split(text)[k] = LabelLine(n)}

\* C3: the assembled document has one marker fewer than it has non-empty
\* pages (none when no page is non-empty): markers stand between non-empty
\* pages only, never before the first content.
C3_MarkersBetweenOnly ==
    ppc = "done" =>
        LET expected == IF NonEmptyPages = {} THEN 0
                        ELSE Cardinality(NonEmptyPages) - 1
        IN  /\ Cardinality(MarkerParts) = expected
            /\ Cardinality(RuleLines(full_markdown)) = expected

\* C4: an empty page adds neither content nor a marker, and every marker
\* carries the 1-based number of the non-empty page whose content follows
\* it; for pages [non-empty, empty, non-empty] there is one marker, page 3.
C4_MarkerLabels ==
    ppc = "done" =>
        /\ \A k \in MarkerParts :
              \E n \in NonEmptyPages :
                  /\ md_parts[k] = PageMarker(n)
                  /\ k < Len(md_parts)
                  /\ md_parts[k + 1] = process_pdf_blocks(doc[n])
        /\ Len(md_parts) - Cardinality(MarkerParts)
               = Cardinality(NonEmptyPages)
        /\ Labels(full_markdown) \subseteq NonEmptyPages
        /\ Cardinality(RuleLines(full_markdown))
               = Cardinality(Labels(full_markdown))
        /\ (Len(doc) = 3 /\ NonEmptyPages = {1, 3}) =>
              /\ Cardinality(MarkerParts) = 1
              /\ Labels(full_markdown) = {3}

C4_Witness ==
    /\ ppc = "done"
    /\ Len(doc) = 3
    /\ NonEmptyPages = {1, 3}
    /\ Len(md_parts) = 3
    /\ md_parts[2] = <<NL, NL, "-", "-", "-", NL,
                       "*", "P", "a", "g", "e", " ", "3", "*", NL, NL>>

----------------------------------------------------------------------------
(* Properties of main, convert_to_markdown and batch_convert (SpecBatch) *)

Unsupported(e) ==
    Lower(e.ext) \notin {".pdf", ".docx", ".doc", ".pptx", ".ppt", ".xlsx",
                         ".xls", ".odt", ".odp", ".ods"}

ValidPdf(e) == e.kind = "file" /\ Lower(e.ext) = ".pdf" /\ e.outcome = "ok"
TextFile(e) == e.kind = "file" /\ e.ext = ".txt"

\* the directory holds one valid PDF and one file of an unsupported format
PdfAndText ==
    /\ batch
    /\ Len(entries) = 2
    /\ \E i, j \in 1..2 : i # j /\ ValidPdf(entries[i]) /\ TextFile(entries[j])

Successes == {k \in 1..Len(results) : results[k].success}

\* C2: batch conversion of a directory with one valid PDF and one file of an
\* unsupported format returns two records, exactly one of them a success.
C2_TwoRecords ==
    (bpc = "done" /\ PdfAndText) =>
        Len(results) = 2 /\ Cardinality(Successes) = 1

\* C2 as amended: batch conversion of such a directory returns exactly one
\* record, the successful record of the PDF; the file of an unsupported
\* format is filtered out before conversion and has no record.
C2_OneRecord ==
    (bpc = "done" /\ PdfAndText) =>
        /\ Len(results) = 1
        /\ results[1].success
        /\ ValidPdf(entries[results[1].input_path])

C2_Witness ==
    /\ bpc = "done"
    /\ PdfAndText
    /\ TextFile(entries[1])
    /\ results = <<[success |-> TRUE, input_path |-> 2, output_path |-> 2,
                    conversion_type |-> "pdf_to_markdown"]>>

\* C5: converting an existing file of an unsupported format raises the
\* unsupported-format error and has no side effect: no directory created, no
\* output written, neither conversion path called.
C5_UnsupportedNoEffect ==
    (bpc = "done" /\ ~batch /\ input.kind # "missing" /\ Unsupported(input)) =>
        /\ raised = "Unsupported file format"
        /\ made_dirs = {}
        /\ written = {}
        /\ invoked = <<>>
        /\ results = <<>>

C5_Witness ==
    /\ bpc = "done"
    /\ ~batch
    /\ input = [kind |-> "file", ext |-> ".txt", outcome |-> "ok"]
    /\ raised = "Unsupported file format"

\* the supported files among the first n entries, in traversal order
RECURSIVE Enumerated(_)
Enumerated(n) ==
    IF n = 0 THEN <<>>
    ELSE Enumerated(n - 1)
           \o (IF entries[n].kind = "file" /\ ~Unsupported(entries[n])
               THEN <<n>> ELSE <<>>)

\* C10: whatever files fail, the batch returns one record per enumerated
\* supported file, in traversal order; a failing file gives a record
\* {success: false, input_path, error} and changes neither the records
\* before it nor the conversion of the files after it.
C10_OneRecordPerFile ==
    (batch /\ bpc \in {"loop", "done"}) =>
        /\ bpc = "done" => pos = Len(entries)
        /\ Len(results) = Len(Enumerated(pos))
        /\ \A k \in 1..Len(results) :
              LET e == entries[Enumerated(pos)[k]] IN
              /\ results[k].input_path = Enumerated(pos)[k]
              /\ results[k].success = (e.outcome = "ok")
              /\ ~results[k].success =>
                    /\ DOMAIN results[k] = {"success", "input_path", "error"}
                    /\ results[k].error # ""
        /\ Len(invoked) = Len(results)

C10_Witness ==
    /\ batch
    /\ bpc = "done"
    /\ Len(entries) = 3
    /\ entries[1].kind = "file" /\ entries[1].ext = ".pdf"
    /\ entries[1].outcome = "fail"
    /\ entries[2].ext = ".docx" /\ entries[2].outcome = "ok"
    /\ entries[3].ext = ".PDF" /\ entries[3].outcome = "failwritten"
    /\ Len(results) = 3
    /\ ~results[1].success /\ results[2].success /\ ~results[3].success

====
